---- MODULE Spec2Model ----
(***************************************************************************)
(* Model of the Fela! reservation backend (backend/app/main.py,            *)
(* models.py, schemas.py, database.py).                                    *)
(*                                                                         *)
(* State: the two tables (bookings, special_events) with the constraints   *)
(* models.py declares on them, the autoincrement counters, and the last    *)
(* HTTP response with the state of its background e-mail.                  *)
(*                                                                         *)
(* Optional values (Optional[time], Optional[int]) are sequences: None is  *)
(* the empty sequence, time(h, m) is <<h, m>>, an event id i is <<i>>.     *)
(* Columns that no handler reads in a condition (name, phone, notes,       *)
(* display_name) are not part of the rows.                                 *)
(***************************************************************************)
EXTENDS Integers, Sequences, FiniteSets, TLC

\* ------------------------------------------------------------------ bounds
NumEmails == 3
NumDates == 2
MaxBookings == 3
MaxEvents == 2
NumWorkers == 2
NumToday == 8

\* --------------------------------------------------------------- constants
None == <<>>

MAX_GUESTS == 25

time(h, m) == <<h, m>>

BRUNCH_SLOTS == {time(12, 0), time(13, 30)}

VARIABLES
    bookings,       \* rows of table "bookings"
    special_events, \* rows of table "special_events"
    nextId,         \* next value of bookings.id (and the nonce of the next uuid4 token)
    nextEventId,    \* next value of special_events.id
    last,           \* the last HTTP response, with the request it answers and the
                    \* state of the background task FastAPI runs after it
    ADMIN_PASSWORD, \* os.getenv("ADMIN_PASSWORD"), read once at start
    scope,          \* the requests clients send in this run (fixed by Init)
    work            \* per concurrent request: how far create_booking has come

vars == <<bookings, special_events, nextId, nextEventId, last, ADMIN_PASSWORD, scope,
          work>>

\* ------------------------------------------------------------ input domains
\* A run draws its requests from one scope. Each scope lets some fields of the
\* request range widely and keeps the others narrow.
Scopes ==
    { \* the guest counts of the spec's example against one brunch turn
      [emails |-> 1..NumEmails, dates |-> {1}, times |-> {time(12, 0)},
       guests |-> {1, 5, 10, 20}, events |-> 0],
      \* guest counts no table can seat
      [emails |-> 1..2, dates |-> {1}, times |-> {time(20, 0)},
       guests |-> {-5, 0, 30}, events |-> 0],
      \* every bucket of one date
      [emails |-> 1..2, dates |-> {1},
       times |-> {None} \cup BRUNCH_SLOTS \cup {time(20, 0)},
       guests |-> {20}, events |-> 0],
      \* a brunch turn and an evening on every date
      [emails |-> 1..2, dates |-> 1..NumDates, times |-> {time(12, 0), time(20, 0)},
       guests |-> {20}, events |-> 0],
      \* special events
      [emails |-> 1..2, dates |-> {1}, times |-> {time(20, 0)},
       guests |-> {10}, events |-> MaxEvents] }

\* schemas.BookingCreate, the body of POST /api/bookings
BookingCreate(sc) ==
    [event_id : {None} \cup {<<i>> : i \in 1..sc.events}, email : sc.emails,
     booking_date : sc.dates, booking_time : sc.times, guests : sc.guests]

\* schemas.SpecialEventCreate, the body of POST /api/admin/special-events; the
\* admin acts only in a scope with special events
SpecialEventCreate(sc) ==
    IF sc.events = 0 THEN {}
    ELSE [booking_date : sc.dates, booking_time : {None}, is_closed : {FALSE}]

\* the event ids the admin's requests name
AdminEventIds(sc) == 1..sc.events

\* HTTPBasicCredentials
Credentials ==
    {[username |-> "admin", password |-> "pw"], [username |-> "admin", password |-> "bad"],
     [username |-> "guest", password |-> "pw"]}

NoRequest == [event_id |-> None, email |-> 0, booking_date |-> 0,
              booking_time |-> None, guests |-> 0]

NoCredentials == [username |-> "", password |-> ""]

\* A response: the endpoint and its inputs (req, token, event, cred), the HTTP
\* status and message, the locals the message is built from, the id of the row
\* inserted, the number of rows a cascade deleted, the background task, and for
\* the event catalog the day it was asked and the list returned, and for the
\* admin's listings the rows returned.
NoResponse == [op |-> "none", req |-> NoRequest, token |-> 0, event |-> 0,
               cred |-> NoCredentials, status |-> 0, detail |-> "",
               context |-> "", booked |-> 0, available_slots |-> 0, id |-> 0,
               rows |-> 0, background |-> "none", today |-> 0, events |-> <<>>,
               data |-> {}]

Workers == 1..NumWorkers

\* a request handler between requests
Idle == [pc |-> "idle", req |-> NoRequest, booked |-> 0, id |-> 0, status |-> 0,
         detail |-> "", event |-> 0, deleted |-> {}]

\* ------------------------------------------------------------- SQL helpers
RECURSIVE SumGuests(_)
\* func.sum(models.Booking.guests) over the rows S, "or 0" for the NULL of no rows
SumGuests(S) ==
    IF S = {} THEN 0
    ELSE LET b == CHOOSE x \in S : TRUE IN b.guests + SumGuests(S \ {b})

\* column == value: SQLAlchemy renders "== None" as IS NULL, and "=" is never
\* true of a NULL column
ColEq(col, v) == IF v = None THEN col = None ELSE col # None /\ col = v

\* ~column.in_(values): NOT IN is NULL, hence not true, for a NULL column
ColNotIn(col, values) == col # None /\ col \notin values

\* Python truthiness of an Optional[int]
Truthy(x) == x # None /\ x[1] # 0

\* pydantic validation of BookingCreate: guests is declared "int", nothing more
Validate(r) == r.guests \in Int

\* main.py 277-286: the rows the duplicate query returns
DuplicateQuery(bk, r) ==
    {b \in bk : /\ b.email = r.email
                /\ IF Truthy(r.event_id)
                   THEN ColEq(b.event_id, r.event_id)
                   ELSE /\ b.booking_date = r.booking_date
                        /\ ColEq(b.booking_time, r.booking_time)}

\* BookedGuests with func.count in place of func.sum: rows, not guests
BookedGuestsCounted(bk, r) ==
    IF r.booking_time \in BRUNCH_SLOTS
    THEN Cardinality({b \in bk : /\ b.booking_date = r.booking_date
                                 /\ ColEq(b.booking_time, r.booking_time)})
    ELSE Cardinality({b \in bk : /\ b.booking_date = r.booking_date
                                 /\ ColNotIn(b.booking_time, BRUNCH_SLOTS)})

\* main.py 296-311: booked_guests of the request's bucket
BookedGuests(bk, r) ==
    IF r.booking_time \in BRUNCH_SLOTS
    THEN SumGuests({b \in bk : /\ b.booking_date = r.booking_date
                               /\ ColEq(b.booking_time, r.booking_time)})
    ELSE SumGuests({b \in bk : /\ b.booking_date = r.booking_date
                               /\ ColNotIn(b.booking_time, BRUNCH_SLOTS)})

\* main.py 302, 311: error_context
ErrorContext(r) == IF r.booking_time \in BRUNCH_SLOTS THEN "turno" ELSE "serata"

\* main.py 317: the capacity test
OverCapacity(booked, guests) == booked + guests > MAX_GUESTS

\* main.py 318-321: the message of a capacity rejection
CapacityDetail(booked) == IF MAX_GUESTS - booked <= 0 THEN "full" ELSE "remaining"

\* models.py: the row create_booking inserts
NewRow(r, id) ==
    [id |-> id, event_id |-> r.event_id, email |-> r.email,
     booking_date |-> r.booking_date, booking_time |-> r.booking_time,
     guests |-> r.guests, cancellation_token |-> id]

\* the table's constraints with email not unique
ConstraintViolatedEmailFree(bk, ev, row) ==
    \/ \E b \in bk : b.cancellation_token = row.cancellation_token
    \/ row.event_id # None /\ \A e \in ev : e.id # row.event_id[1]

\* models.py 10, 12, 17: what the table's constraints refuse at commit
\* (email unique, cancellation_token unique, event_id a foreign key)
ConstraintViolated(bk, ev, row) ==
    \/ \E b \in bk : b.email = row.email
    \/ \E b \in bk : b.cancellation_token = row.cancellation_token
    \/ row.event_id # None /\ \A e \in ev : e.id # row.event_id[1]

\* Commit with the pending row kept when the commit raises
CommitWithoutRollback(bk, row, committed) == bk \cup {row}

\* main.py 328-329 with database.py 24-28: the table after db.add and db.commit;
\* a commit that raises leaves the session to get_db, whose close rolls back
Commit(bk, row, committed) == IF committed THEN bk \cup {row} ELSE bk

\* main.py 329: the exception db.commit() raises, or "" when it returns
CommitError(bk, ev, row, dbok) ==
    IF ~dbok THEN "OperationalError"
    ELSE IF ConstraintViolated(bk, ev, row) THEN "IntegrityError"
    ELSE ""

\* Background with add_task moved above the checks: every path schedules the mail
BackgroundAlways(status) == "scheduled"

\* main.py 336: the task create_booking hands to background_tasks, reached only
\* on the path that returns the booking
Background(status) == IF status = 200 THEN "scheduled" ELSE "none"

\* main.py 116, 131, 144: the admin check of the special-event endpoints
Authorized(cred, configured) ==
    ~(cred.username # "admin" \/ <<cred.password>> # configured)

\* ------------------------------------------------------------------ state
Init ==
    /\ bookings = {}
    /\ special_events = {}
    /\ nextId = 1
    /\ nextEventId = 1
    /\ last = NoResponse
    /\ ADMIN_PASSWORD = <<"pw">>
    /\ scope \in Scopes
    /\ work = [w \in Workers |-> Idle]

\* Requests are served one at a time: the next one starts when the last one's
\* response and background task are done.
Serving == last.background # "scheduled"

\* POST /api/bookings; dbok says whether the database answers the commit
create_booking(r) ==
    LET booked == BookedGuests(bookings, r)
        row == NewRow(r, nextId)
        answer(status, detail) ==
            [NoResponse EXCEPT !.op = "create_booking", !.req = r,
                               !.status = status, !.detail = detail,
                               !.background = Background(status)]
    IN
    /\ Serving
    /\ UNCHANGED <<special_events, nextEventId, ADMIN_PASSWORD, scope, work>>
    /\ IF ~Validate(r)
       THEN /\ last' = answer(422, "invalid")
            /\ UNCHANGED <<bookings, nextId>>
       ELSE IF DuplicateQuery(bookings, r) # {}
       THEN /\ last' = answer(400, "duplicate")
            /\ UNCHANGED <<bookings, nextId>>
       ELSE IF OverCapacity(booked, r.guests)
       THEN /\ last' = [answer(400, CapacityDetail(booked)) EXCEPT
                           !.context = ErrorContext(r), !.booked = booked,
                           !.available_slots = MAX_GUESTS - booked]
            /\ UNCHANGED <<bookings, nextId>>
       ELSE \E dbok \in BOOLEAN :
            LET error == CommitError(bookings, special_events, row, dbok) IN
            /\ error = "" => nextId <= MaxBookings
            /\ bookings' = Commit(bookings, row, error = "")
            /\ IF error = ""
               THEN /\ nextId' = nextId + 1
                    /\ last' = [answer(200, "ok") EXCEPT !.booked = booked,
                                   !.id = row.id, !.token = row.cancellation_token]
               ELSE /\ nextId' = nextId
                    /\ last' = [answer(500, error) EXCEPT !.booked = booked]

\* the background task of an accepted booking, run after its response was sent;
\* sent says whether fm.send_message returned or raised
send_email_confirmation(sent) ==
    /\ last.background = "scheduled"
    /\ last' = [last EXCEPT !.background = IF sent THEN "sent" ELSE "failed"]
    /\ UNCHANGED <<bookings, special_events, nextId, nextEventId, ADMIN_PASSWORD, scope, work>>

\* cancel_booking without db.commit(): the answer is the same, the row stays
cancel_booking_uncommitted(token) ==
    LET found == {b \in bookings : b.cancellation_token = token}
        answer(status, detail) ==
            [NoResponse EXCEPT !.op = "cancel_booking", !.token = token,
                               !.status = status, !.detail = detail]
    IN
    /\ last.background # "scheduled"
    /\ UNCHANGED <<bookings, special_events, nextId, nextEventId, ADMIN_PASSWORD, scope, work>>
    /\ last' = IF found = {} THEN answer(404, "not_found") ELSE answer(200, "ok")

\* GET /api/bookings/cancel/{token}
cancel_booking(token) ==
    LET found == {b \in bookings : b.cancellation_token = token}
        answer(status, detail) ==
            [NoResponse EXCEPT !.op = "cancel_booking", !.token = token,
                               !.status = status, !.detail = detail]
    IN
    /\ Serving
    /\ UNCHANGED <<special_events, nextId, nextEventId, ADMIN_PASSWORD, scope, work>>
    /\ IF found = {}
       THEN /\ last' = answer(404, "not_found")
            /\ UNCHANGED bookings
       ELSE /\ bookings' = bookings \ {CHOOSE b \in found : TRUE}
            /\ last' = answer(200, "ok")

\* POST /api/admin/special-events
create_special_event(ev, cred) ==
    LET answer(status, detail) ==
            [NoResponse EXCEPT !.op = "create_special_event", !.cred = cred,
                               !.status = status, !.detail = detail]
    IN
    /\ Serving
    /\ UNCHANGED <<bookings, nextId, ADMIN_PASSWORD, scope, work>>
    /\ IF ~Authorized(cred, ADMIN_PASSWORD)
       THEN /\ last' = answer(401, "unauthorized")
            /\ UNCHANGED <<special_events, nextEventId>>
       ELSE /\ nextEventId <= scope.events
            /\ special_events' = special_events \cup
                   {[id |-> nextEventId, booking_date |-> ev.booking_date,
                     booking_time |-> ev.booking_time, is_closed |-> ev.is_closed]}
            /\ nextEventId' = nextEventId + 1
            /\ last' = [answer(200, "ok") EXCEPT !.event = nextEventId]

\* Referencing without its filter: the cascade takes every booking
ReferencingAny(bk, event_id) == bk

\* main.py 152: the bookings the cascade deletes
Referencing(bk, event_id) == {b \in bk : ColEq(b.event_id, <<event_id>>)}

\* DELETE /api/admin/special-events/{event_id}
delete_special_event(event_id, cred) ==
    LET found == {e \in special_events : e.id = event_id}
        answer(status, detail) ==
            [NoResponse EXCEPT !.op = "delete_special_event", !.event = event_id,
                               !.cred = cred, !.status = status, !.detail = detail]
    IN
    /\ Serving
    /\ UNCHANGED <<nextId, nextEventId, ADMIN_PASSWORD, scope, work>>
    /\ IF ~Authorized(cred, ADMIN_PASSWORD)
       THEN /\ last' = answer(401, "unauthorized")
            /\ UNCHANGED <<bookings, special_events>>
       ELSE IF found = {}
       THEN /\ last' = answer(404, "not_found")
            /\ UNCHANGED <<bookings, special_events>>
       ELSE /\ bookings' = bookings \ Referencing(bookings, event_id)
            /\ special_events' = special_events \ found
            /\ last' = [answer(200, "ok") EXCEPT
                           !.rows = Cardinality(Referencing(bookings, event_id))]

Next ==
    \/ \E r \in BookingCreate(scope) : create_booking(r)
    \/ \E sent \in BOOLEAN : send_email_confirmation(sent)
    \/ \E token \in 1..MaxBookings : cancel_booking(token)
    \/ \E ev \in SpecialEventCreate(scope), cred \in Credentials :
           create_special_event(ev, cred)
    \/ \E event_id \in AdminEventIds(scope), cred \in Credentials :
           delete_special_event(event_id, cred)

Spec == Init /\ [][Next]_vars

\* ------------------------------------------------- concurrent create_booking
\* Several requests in flight, each in its own session (database.py get_db).
\* A step is one round trip to the database: a query reads the rows committed
\* so far, the commit adds the row or raises. No step takes a lock.

\* the requests of a race
RaceScopes ==
    { [emails |-> 1..2, dates |-> {1}, times |-> {time(12, 0)},
       guests |-> {10, 20}, events |-> 0] }

RaceInit ==
    /\ bookings = {}
    /\ special_events = {}
    /\ nextId = 1
    /\ nextEventId = 1
    /\ last = NoResponse
    /\ ADMIN_PASSWORD = <<"pw">>
    /\ scope \in RaceScopes
    /\ work = [w \in Workers |-> Idle]

Shared == <<special_events, nextEventId, last, ADMIN_PASSWORD, scope>>

Finish(w, status, detail) ==
    work' = [work EXCEPT ![w].pc = "done", ![w].status = status, ![w].detail = detail]

\* main.py 270-289: the request arrives and the duplicate query runs
duplicate_check(w, r) ==
    /\ work[w].pc \in {"idle", "done"}
    /\ Validate(r)
    /\ IF DuplicateQuery(bookings, r) # {}
       THEN work' = [work EXCEPT ![w] = [Idle EXCEPT !.pc = "done", !.req = r,
                                             !.status = 400, !.detail = "duplicate"]]
       ELSE work' = [work EXCEPT ![w] = [Idle EXCEPT !.pc = "capacity", !.req = r]]
    /\ UNCHANGED <<bookings, nextId, Shared>>

\* main.py 296-322: the sum query runs and the capacity test decides
capacity_check(w) ==
    LET r == work[w].req
        booked == BookedGuests(bookings, r)
    IN
    /\ work[w].pc = "capacity"
    /\ IF OverCapacity(booked, r.guests)
       THEN work' = [work EXCEPT ![w].pc = "done", ![w].booked = booked,
                                 ![w].status = 400, ![w].detail = CapacityDetail(booked)]
       ELSE work' = [work EXCEPT ![w].pc = "commit", ![w].booked = booked]
    /\ UNCHANGED <<bookings, nextId, Shared>>

\* commit behind a lock on the bucket: the sum is read again, and a bucket
\* that has filled up since the capacity query refuses the row
commit_serialized(w) ==
    LET r == work[w].req
        row == NewRow(r, nextId)
    IN
    /\ work[w].pc = "commit"
    /\ IF OverCapacity(BookedGuests(bookings, r), r.guests)
       THEN /\ Finish(w, 400, CapacityDetail(BookedGuests(bookings, r)))
            /\ UNCHANGED <<bookings, nextId>>
       ELSE \E dbok \in BOOLEAN :
            LET error == CommitError(bookings, special_events, row, dbok) IN
            /\ error = "" => nextId <= MaxBookings
            /\ bookings' = Commit(bookings, row, error = "")
            /\ IF error = ""
               THEN /\ nextId' = nextId + 1
                    /\ work' = [work EXCEPT ![w].pc = "respond", ![w].id = row.id]
               ELSE /\ nextId' = nextId
                    /\ Finish(w, 500, error)
    /\ UNCHANGED Shared

\* main.py 325-330: the row is added and committed
commit(w) ==
    LET row == NewRow(work[w].req, nextId) IN
    /\ work[w].pc = "commit"
    /\ \E dbok \in BOOLEAN :
           LET error == CommitError(bookings, special_events, row, dbok) IN
           /\ error = "" => nextId <= MaxBookings
           /\ bookings' = Commit(bookings, row, error = "")
           /\ IF error = ""
              THEN /\ nextId' = nextId + 1
                   /\ work' = [work EXCEPT ![w].pc = "respond", ![w].id = row.id]
              ELSE /\ nextId' = nextId
                   /\ Finish(w, 500, error)
    /\ UNCHANGED Shared

\* main.py 333-338: the mail is scheduled and the booking returned
respond(w) ==
    /\ work[w].pc = "respond"
    /\ work' = [work EXCEPT ![w].pc = "background", ![w].status = 200, ![w].detail = "ok"]
    /\ UNCHANGED <<bookings, nextId, Shared>>

\* main.py 158-267: the mail goes out, or fails, after the response
background(w) ==
    /\ work[w].pc = "background"
    /\ work' = [work EXCEPT ![w].pc = "done"]
    /\ UNCHANGED <<bookings, nextId, Shared>>

RaceNext ==
    \/ \E w \in Workers, r \in BookingCreate(scope) : duplicate_check(w, r)
    \/ \E w \in Workers : capacity_check(w)
    \/ \E w \in Workers : commit(w)
    \/ \E w \in Workers : respond(w)
    \/ \E w \in Workers : background(w)

RaceSpec == RaceInit /\ [][RaceNext]_vars

\* -------------------------------------------------------------- event catalog
\* Dates of the catalog are days counted from Sunday 2024-12-01 (day 0), so that
\* the eight Sundays after any day of the first week cross a year's end.

\* datetime's calendar from December 2024 to April 2025: the days of each month
MonthDays == <<31, 31, 28, 31, 30>>

RECURSIVE MonthAndDay(_, _)
MonthAndDay(n, i) ==
    IF n < MonthDays[i] THEN <<i, n + 1>> ELSE MonthAndDay(n - MonthDays[i], i + 1)

\* date.year, date.month, date.day of day n
Ymd(n) ==
    LET md == MonthAndDay(n, 1) IN
    IF md[1] = 1 THEN <<2024, 12, md[2]>> ELSE <<2025, md[1] - 1, md[2]>>

\* date.weekday(): Monday is 0 and Sunday is 6
weekday(n) == (n + 6) % 7

\* a string is the sequence of its character codes
Digit(c) == 48 + c

TwoDigits(x) == <<Digit(x \div 10), Digit(x % 10)>>

\* strftime('%d/%m'), the format of display_name, used as the date of the sort key
date_strftime(n) ==
    LET d == Ymd(n) IN TwoDigits(d[3]) \o <<47>> \o TwoDigits(d[2])

\* date.isoformat(): YYYY-MM-DD
date_isoformat(n) ==
    LET d == Ymd(n) IN
    <<Digit(d[1] \div 1000), Digit((d[1] \div 100) % 10), Digit((d[1] \div 10) % 10),
      Digit(d[1] % 10)>> \o <<45>> \o TwoDigits(d[2]) \o <<45>> \o TwoDigits(d[3])

\* time.isoformat(): HH:MM:SS
time_isoformat(t) == TwoDigits(t[1]) \o <<58>> \o TwoDigits(t[2]) \o <<58>> \o TwoDigits(0)

\* Python's < on strings
RECURSIVE StrLess(_, _)
StrLess(a, b) ==
    IF b = <<>> THEN FALSE
    ELSE IF a = <<>> THEN TRUE
    ELSE IF a[1] # b[1] THEN a[1] < b[1]
    ELSE StrLess(Tail(a), Tail(b))

\* Python's < on the pairs sort_key returns
KeyLess(k, l) == StrLess(k[1], l[1]) \/ (k[1] = l[1] /\ StrLess(k[2], l[2]))

\* dict.get
Get(event, key) == IF key \in DOMAIN event THEN event[key] ELSE None

\* main.py 95-104
sort_key(event) ==
    LET event_time_str == Get(event, "booking_time") IN
    <<event.booking_date,
      IF event_time_str = None /\ event.type = "brunch"
      THEN (IF event.available_slots # <<>> THEN event.available_slots[1]
            ELSE time_isoformat(time(0, 0)))
      ELSE IF event_time_str = None THEN time_isoformat(time(0, 0))
      ELSE event_time_str>>

\* list.sort(key=sort_key): stable, an entry goes behind every entry whose key
\* is not greater than its own
RECURSIVE Insert(_, _)
Insert(x, sorted) ==
    IF sorted = <<>> THEN <<x>>
    ELSE IF KeyLess(sort_key(x), sort_key(Head(sorted))) THEN <<x>> \o sorted
    ELSE <<Head(sorted)>> \o Insert(x, Tail(sorted))

RECURSIVE sort(_)
sort(events) ==
    IF events = <<>> THEN <<>>
    ELSE Insert(events[Len(events)], sort(SubSeq(events, 1, Len(events) - 1)))

\* main.py 68-74: an entry of a special event
SpecialEntry(event) ==
    [type |-> "special", id |-> <<event.id>>,
     booking_date |-> date_isoformat(event.booking_date),
     booking_time |-> IF event.booking_time # None
                      THEN time_isoformat(event.booking_time) ELSE None]

\* main.py 84-90: an entry of a Sunday brunch
BrunchEntry(check_date) ==
    [type |-> "brunch", id |-> None, booking_date |-> date_isoformat(check_date),
     available_slots |-> <<time_isoformat(time(12, 0)), time_isoformat(time(13, 30))>>]

\* main.py 79-92: the loop over the days from today until 8 Sundays are found
RECURSIVE Sundays(_, _, _)
Sundays(today, day_offset, sundays_found) ==
    IF ~(sundays_found < 8) THEN <<>>
    ELSE LET check_date == today + day_offset IN
         IF weekday(check_date) = 6
         THEN <<BrunchEntry(check_date)>> \o Sundays(today, day_offset + 1, sundays_found + 1)
         ELSE Sundays(today, day_offset + 1, sundays_found)

\* the orders in which a query without ORDER BY may return the rows of a table
Orders(rows) ==
    {o \in [1..Cardinality(rows) -> rows] :
        \A i, j \in 1..Cardinality(rows) : i # j => o[i] # o[j]}

\* the values of date.today()
Today == 0..(NumToday - 1)

\* the special events the admin creates in a catalog run
CatalogEvents ==
    [booking_date : {3, 7}, booking_time : {None, time(12, 0), time(20, 0)},
     is_closed : BOOLEAN]

CatalogScope == [emails |-> {}, dates |-> {3, 7}, times |-> {None, time(12, 0), time(20, 0)},
                 guests |-> {}, events |-> 2]

\* GET /api/bookable-events
get_bookable_events(today, db_special_events) ==
    LET kept == SelectSeq(db_special_events, LAMBDA event : event.booking_date >= today)
        events == [i \in 1..Len(kept) |-> SpecialEntry(kept[i])] \o Sundays(today, 0, 0)
    IN
    /\ Serving
    /\ last' = [NoResponse EXCEPT !.op = "get_bookable_events", !.status = 200,
                                  !.detail = "ok", !.today = today, !.events = sort(events)]
    /\ UNCHANGED <<bookings, special_events, nextId, nextEventId, ADMIN_PASSWORD, scope, work>>

CatalogInit ==
    /\ bookings = {}
    /\ special_events = {}
    /\ nextId = 1
    /\ nextEventId = 1
    /\ last = NoResponse
    /\ ADMIN_PASSWORD = <<"pw">>
    /\ scope = CatalogScope
    /\ work = [w \in Workers |-> Idle]

CatalogNext ==
    \/ \E ev \in CatalogEvents, cred \in Credentials : create_special_event(ev, cred)
    \/ \E event_id \in AdminEventIds(scope), cred \in Credentials :
           delete_special_event(event_id, cred)
    \/ \E today \in Today, db_special_events \in Orders(special_events) :
           get_bookable_events(today, db_special_events)

CatalogSpec == CatalogInit /\ [][CatalogNext]_vars

\* ------------------------------------------------------------ admin endpoints
\* The admin's listings next to the endpoints above, for every value
\* os.getenv("ADMIN_PASSWORD") can have: unset, empty, or a password.

\* main.py 389, 440: not ADMIN_PASSWORD
NotConfigured(configured) == configured = None \/ configured[1] = ""

\* main.py 406-411, 454-465: the filters of the two booking listings; a date is
\* passed as <<d>>
Filtered(bk, event_id, event_date, event_time) ==
    IF Truthy(event_id) THEN {b \in bk : ColEq(b.event_id, event_id)}
    ELSE IF event_date # None /\ event_time # None
    THEN {b \in bk : b.booking_date = event_date[1] /\ ColEq(b.booking_time, event_time)}
    ELSE bk

\* the query parameters of the two booking listings
Filters ==
    {<<None, None, None>>, <<<<1>>, None, None>>, <<None, <<1>>, time(20, 0)>>}

AdminCredentials == Credentials \cup {[username |-> "admin", password |-> ""]}

AdminScope == [emails |-> 1..2, dates |-> {1}, times |-> {time(20, 0)}, guests |-> {10},
               events |-> MaxEvents]

\* GET /api/admin/bookings with skip = 0 and the default limit, which no table
\* of the model exceeds: the page is the whole filtered set
get_all_bookings(cred, f) ==
    LET answer(status, detail) ==
            [NoResponse EXCEPT !.op = "get_all_bookings", !.cred = cred,
                               !.status = status, !.detail = detail]
    IN
    /\ Serving
    /\ UNCHANGED <<bookings, special_events, nextId, nextEventId, ADMIN_PASSWORD, scope, work>>
    /\ IF NotConfigured(ADMIN_PASSWORD)
       THEN last' = answer(500, "not_configured")
       ELSE IF ~Authorized(cred, ADMIN_PASSWORD)
       THEN last' = answer(401, "unauthorized")
       ELSE last' = [answer(200, "ok") EXCEPT
                        !.data = Filtered(bookings, f[1], f[2], f[3]),
                        !.rows = Cardinality(Filtered(bookings, f[1], f[2], f[3]))]

\* GET /api/bookings/pdf
export_bookings_to_pdf(cred, f) ==
    LET answer(status, detail) ==
            [NoResponse EXCEPT !.op = "export_bookings_to_pdf", !.cred = cred,
                               !.status = status, !.detail = detail]
    IN
    /\ Serving
    /\ UNCHANGED <<bookings, special_events, nextId, nextEventId, ADMIN_PASSWORD, scope, work>>
    /\ IF NotConfigured(ADMIN_PASSWORD) \/ ~Authorized(cred, ADMIN_PASSWORD)
       THEN last' = answer(401, "unauthorized")
       ELSE last' = [answer(200, "ok") EXCEPT
                        !.data = Filtered(bookings, f[1], f[2], f[3])]

\* GET /api/admin/special-events
read_special_events(cred) ==
    LET answer(status, detail) ==
            [NoResponse EXCEPT !.op = "read_special_events", !.cred = cred,
                               !.status = status, !.detail = detail]
    IN
    /\ Serving
    /\ UNCHANGED <<bookings, special_events, nextId, nextEventId, ADMIN_PASSWORD, scope, work>>
    /\ IF ~Authorized(cred, ADMIN_PASSWORD)
       THEN last' = answer(401, "unauthorized")
       ELSE last' = [answer(200, "ok") EXCEPT !.data = special_events]

AdminInit ==
    /\ bookings = {}
    /\ special_events = {}
    /\ nextId = 1
    /\ nextEventId = 1
    /\ last = NoResponse
    /\ ADMIN_PASSWORD \in {None, <<"">>, <<"pw">>}
    /\ scope = AdminScope
    /\ work = [w \in Workers |-> Idle]

AdminNext ==
    \/ \E r \in BookingCreate(scope) : create_booking(r)
    \/ \E sent \in BOOLEAN : send_email_confirmation(sent)
    \/ \E ev \in SpecialEventCreate(scope), cred \in AdminCredentials :
           create_special_event(ev, cred)
    \/ \E event_id \in AdminEventIds(scope), cred \in AdminCredentials :
           delete_special_event(event_id, cred)
    \/ \E cred \in AdminCredentials : read_special_events(cred)
    \/ \E cred \in AdminCredentials, f \in Filters : get_all_bookings(cred, f)
    \/ \E cred \in AdminCredentials, f \in Filters : export_bookings_to_pdf(cred, f)

AdminSpec == AdminInit /\ [][AdminNext]_vars

\* ----------------------------------- create_booking against delete_special_event
\* delete_special_event in its own session, step by step, next to requests of
\* create_booking. bookings and special_events are the committed rows. The
\* DELETE of the bookings runs at once inside the transaction and is seen by
\* the others only after the commit; the DELETE of the event is flushed by
\* db.commit(), where the database checks the foreign key of models.py 10
\* against the rows committed by then. One delete is in flight at a time.

Deleting == {w \in Workers : work[w].pc \in {"delete_bookings", "delete_commit"}}

\* the foreign key check without the rows committed since the transaction began
StillReferencedNever(bk, deleted, event_id) == FALSE

\* models.py 10: the rows that still reference the event when it is deleted
StillReferenced(bk, deleted, event_id) == Referencing(bk, event_id) \ deleted # {}

\* an INSERT whose email is held by a row that a transaction in flight has
\* deleted waits, on the unique index, for that transaction to end
WaitsForDelete(w) ==
    \E d \in Deleting : \E b \in work[d].deleted : b.email = work[w].req.email

\* main.py 144-149: the admin check and the query for the event
delete_query_event(w, event_id, cred) ==
    /\ work[w].pc \in {"idle", "done"}
    /\ Deleting = {}
    /\ IF ~Authorized(cred, ADMIN_PASSWORD)
       THEN work' = [work EXCEPT ![w] = [Idle EXCEPT !.pc = "done", !.event = event_id,
                                             !.status = 401, !.detail = "unauthorized"]]
       ELSE IF {e \in special_events : e.id = event_id} = {}
       THEN work' = [work EXCEPT ![w] = [Idle EXCEPT !.pc = "done", !.event = event_id,
                                             !.status = 404, !.detail = "not_found"]]
       ELSE work' = [work EXCEPT ![w] = [Idle EXCEPT !.pc = "delete_bookings",
                                             !.event = event_id]]
    /\ UNCHANGED <<bookings, nextId, Shared>>

\* main.py 152: DELETE FROM bookings WHERE event_id = :event_id
delete_bookings(w) ==
    /\ work[w].pc = "delete_bookings"
    /\ work' = [work EXCEPT ![w].pc = "delete_commit",
                            ![w].deleted = Referencing(bookings, work[w].event)]
    /\ UNCHANGED <<bookings, nextId, Shared>>

\* main.py 154-156: db.delete(event), db.commit()
delete_commit(w) ==
    /\ work[w].pc = "delete_commit"
    /\ IF StillReferenced(bookings, work[w].deleted, work[w].event)
       THEN /\ work' = [work EXCEPT ![w].pc = "done", ![w].deleted = {},
                                    ![w].status = 500, ![w].detail = "IntegrityError"]
            /\ UNCHANGED <<bookings, special_events>>
       ELSE /\ bookings' = bookings \ work[w].deleted
            /\ special_events' = {e \in special_events : e.id # work[w].event}
            /\ work' = [work EXCEPT ![w].pc = "done", ![w].status = 200, ![w].detail = "ok"]
    /\ UNCHANGED <<nextId, nextEventId, last, ADMIN_PASSWORD, scope>>

\* the requests of these runs: bookings of one client for one event or for none
IntegrityScope == [emails |-> {1}, dates |-> {1}, times |-> {time(20, 0)},
                   guests |-> {10}, events |-> 1]

Admin == {cred \in Credentials : Authorized(cred, <<"pw">>)}

IntegrityInit ==
    /\ bookings = {}
    /\ special_events = {}
    /\ nextId = 1
    /\ nextEventId = 1
    /\ last = NoResponse
    /\ ADMIN_PASSWORD = <<"pw">>
    /\ scope = IntegrityScope
    /\ work = [w \in Workers |-> Idle]

IntegrityNext ==
    \/ \E ev \in SpecialEventCreate(scope), cred \in Admin :
           create_special_event(ev, cred)
    \/ \E w \in Workers, r \in BookingCreate(scope) : duplicate_check(w, r)
    \/ \E w \in Workers : capacity_check(w)
    \/ \E w \in Workers : ~WaitsForDelete(w) /\ commit(w)
    \/ \E w \in Workers : respond(w)
    \/ \E w \in Workers : background(w)
    \/ \E w \in Workers, event_id \in AdminEventIds(scope), cred \in Admin :
           delete_query_event(w, event_id, cred)
    \/ \E w \in Workers : delete_bookings(w)
    \/ \E w \in Workers : delete_commit(w)

IntegritySpec == IntegrityInit /\ [][IntegrityNext]_vars

\* -------------------------------------------------------------- properties
\* What the properties speak of, read off the state after a response.
Created == last.op = "create_booking"

Accepted == Created /\ last.status = 200

\* the table as the request answered by last found it
Before == {b \in bookings : ~(Accepted /\ b.id = last.id)}

\* a brunch turn: the bookings of one date and one slot time
BrunchTurn(bk, d, t) == {b \in bk : b.booking_date = d /\ b.booking_time = t}

\* the evening bucket: the bookings of one date outside the two slot times,
\* those without a time included
EveningBucket(bk, d) ==
    {b \in bk : b.booking_date = d /\ b.booking_time \notin {<<12, 0>>, <<13, 30>>}}

\* the bucket a request falls in
BucketOf(bk, r) ==
    IF r.booking_time \in {<<12, 0>>, <<13, 30>>}
    THEN BrunchTurn(bk, r.booking_date, r.booking_time)
    ELSE EveningBucket(bk, r.booking_date)

\* the duplicate rule: same email and same event, or, without an event, same
\* email, date and time
IsDuplicate(bk, r) ==
    \E b \in bk : /\ b.email = r.email
                  /\ IF r.event_id # None
                     THEN b.event_id = r.event_id
                     ELSE b.booking_date = r.booking_date /\ b.booking_time = r.booking_time

\* the request names no event, or one that is stored
EventKnown(r) == r.event_id = None \/ \E e \in special_events : <<e.id>> = r.event_id

\* C1: whenever create_booking accepts a request for a brunch turn (12:00 or
\* 13:30 of a date), the guests of all stored bookings of that turn, the new one
\* counted, sum to at most 25.
C1_BrunchCeiling ==
    (Accepted /\ last.req.booking_time \in {<<12, 0>>, <<13, 30>>})
        => SumGuests(BrunchTurn(bookings, last.req.booking_date,
                                last.req.booking_time)) <= 25

\* C1 witness: an acceptance that fills a brunch turn shared by several bookings
\* to exactly 25.
C1_Witness ==
    /\ Accepted
    /\ last.req.booking_time \in {<<12, 0>>, <<13, 30>>}
    /\ Cardinality(BucketOf(bookings, last.req)) >= 2
    /\ SumGuests(BucketOf(bookings, last.req)) = 25

\* C2: whenever create_booking accepts a request that falls in the evening
\* bucket of its date (any time but 12:00 and 13:30, no time included), the
\* guests of all bookings of that bucket, those without a time and the new one
\* counted, sum to at most 25.
C2_EveningCeiling ==
    (Accepted /\ last.req.booking_time \notin {<<12, 0>>, <<13, 30>>})
        => SumGuests(EveningBucket(bookings, last.req.booking_date)) <= 25

\* C3: a request repeating the email and the event of a stored booking is
\* rejected as a duplicate with 400; a request with a stored email that is no
\* duplicate (another event, or another date or time without an event) is
\* accepted when capacity allows and the database is up.
C3_DuplicateRule ==
    Created =>
        /\ (last.req.event_id # None /\ IsDuplicate(Before, last.req))
               => (last.status = 400 /\ last.detail = "duplicate")
        /\ ( /\ \E b \in Before : b.email = last.req.email
             /\ ~IsDuplicate(Before, last.req)
             /\ EventKnown(last.req)
             /\ SumGuests(BucketOf(Before, last.req)) + last.req.guests <= 25
             /\ last.detail # "OperationalError" )
               => last.status = 200

\* C4: with booked the guests already in the request's bucket, a request that is
\* no duplicate is rejected with 400 exactly when booked + guests > 25 and
\* accepted otherwise; the rejection reports 25 - booked places left when that
\* is positive, and "fully booked" when it is not.
C4_CapacityDecision ==
    (Created /\ ~IsDuplicate(Before, last.req) /\ EventKnown(last.req)
             /\ last.detail # "OperationalError") =>
        LET booked == SumGuests(BucketOf(Before, last.req)) IN
        IF booked + last.req.guests > 25
        THEN /\ last.status = 400
             /\ last.detail = (IF 25 - booked > 0 THEN "remaining" ELSE "full")
             /\ last.available_slots = 25 - booked
        ELSE last.status = 200

\* C4, the part the code keeps: when no stored booking has the request's email
\* and the request's bucket holds no booking without a time, the decision and the
\* message are the claimed ones.
CapacityDecisionElsewhere ==
    (Created /\ EventKnown(last.req) /\ last.detail # "OperationalError"
             /\ (\A b \in Before : b.email # last.req.email)
             /\ (\A c \in BucketOf(Before, last.req) : c.booking_time # None)) =>
        LET booked == SumGuests(BucketOf(Before, last.req)) IN
        IF booked + last.req.guests > 25
        THEN /\ last.status = 400
             /\ last.detail = (IF 25 - booked > 0 THEN "remaining" ELSE "full")
             /\ last.available_slots = 25 - booked
        ELSE last.status = 200

\* the spec's example: 20 booked, 10 asked, refused with 5 places left
ExampleRejected ==
    /\ Created /\ last.status = 400 /\ last.detail = "remaining"
    /\ SumGuests(BucketOf(bookings, last.req)) = 20
    /\ last.req.guests = 10 /\ last.available_slots = 5

\* the spec's example: 20 booked, 5 asked, accepted, the bucket at 25
ExampleAccepted ==
    /\ Accepted /\ last.req.guests = 5
    /\ SumGuests(BucketOf(Before, last.req)) = 20
    /\ SumGuests(BucketOf(bookings, last.req)) = 25

\* the spec's example: 25 booked, 1 asked, refused as fully booked
ExampleFull ==
    /\ Created /\ last.status = 400 /\ last.detail = "full"
    /\ SumGuests(BucketOf(bookings, last.req)) = 25 /\ last.req.guests = 1

\* a step that answers a request to endpoint op
Answers(op) == last' # last /\ last'.op = op

Tokens(bk) == {b.cancellation_token : b \in bk}

\* C5: cancel_booking with the token of a stored booking deletes that booking
\* and no other, leaves the special events alone and answers 200; with a token
\* of no stored booking it answers 404 and changes nothing; and a token whose
\* booking is gone is never a stored booking's token again, so every later call
\* with it is answered 404.
C5_Cancellation ==
    [][ /\ Answers("cancel_booking") =>
            LET hit == {b \in bookings : b.cancellation_token = last'.token} IN
            /\ special_events' = special_events
            /\ IF hit # {}
               THEN /\ Cardinality(hit) = 1
                    /\ bookings' = bookings \ hit
                    /\ last'.status = 200
               ELSE /\ bookings' = bookings
                    /\ last'.status = 404
        /\ \A t \in 1..(nextId - 1) :
               t \notin Tokens(bookings) => t \notin Tokens(bookings') ]_vars

\* C5 witness: the token of a cancelled booking (no event was deleted, so only
\* a cancellation removed it) is answered 404 while another booking and the
\* special events are still stored.
C5_Witness ==
    /\ last.op = "cancel_booking" /\ last.status = 404
    /\ last.token < nextId
    /\ bookings # {} /\ special_events # {}
    /\ Cardinality(special_events) = nextEventId - 1

\* C6: delete_special_event by the admin removes a stored event and exactly the
\* bookings whose event_id is its id, and leaves the other events and bookings
\* alone; for an id of no stored event it answers 404 and changes nothing.
C6_CascadeDelete ==
    [][ Answers("delete_special_event") =>
            LET ev == {e \in special_events : e.id = last'.event}
                admin == last'.cred.username = "admin"
                         /\ <<last'.cred.password>> = ADMIN_PASSWORD
            IN
            IF admin /\ ev # {}
            THEN /\ last'.status = 200
                 /\ special_events' = special_events \ ev
                 /\ bookings' = {b \in bookings : b.event_id # <<last'.event>>}
            ELSE /\ last'.status = (IF admin THEN 404 ELSE 401)
                 /\ special_events' = special_events
                 /\ bookings' = bookings ]_vars

\* C6 witness: a delete that removed an event with a booking of its own while
\* another event and a booking of that other event stay stored.
C6_Witness ==
    /\ last.op = "delete_special_event" /\ last.status = 200 /\ last.rows >= 1
    /\ \E e \in special_events : \E b \in bookings : b.event_id = <<e.id>>

\* C7: a create_booking that ends in a duplicate rejection, a capacity
\* rejection or a failed commit leaves the bookings as they were and schedules
\* no confirmation mail.
C7_NoTrace ==
    [][ (Answers("create_booking") /\ last'.status # 200) =>
            /\ last'.status \in {400, 500}
            /\ bookings' = bookings
            /\ nextId' = nextId
            /\ last'.background = "none" ]_vars

\* C7 witness: a commit that failed on a table that holds bookings.
C7_Witness ==
    /\ Created /\ last.status = 500 /\ last.detail = "IntegrityError"
    /\ bookings # {}

\* C8: every stored booking has at least one guest (a request for zero or
\* fewer guests is refused as malformed and never stored).
C8_PositiveGuests == \A b \in bookings : b.guests >= 1

\* C9: the confirmation mail is a task only of an accepted request whose
\* booking is committed; the step that sends it, whether it succeeds or fails,
\* leaves the bookings and the response as they were and ends the task (no
\* rollback, no retry).
C9_Notification ==
    [][ /\ last'.background # "none" =>
               /\ last'.op = "create_booking" /\ last'.status = 200
               /\ \E b \in bookings' : b.id = last'.id
        /\ last.background = "scheduled" =>
               /\ last'.background \in {"sent", "failed"}
               /\ [last' EXCEPT !.background = "none"]
                      = [last EXCEPT !.background = "none"]
               /\ bookings' = bookings ]_vars

\* C9 witness: the mail of a stored booking failed.
C9_Witness ==
    /\ last.background = "failed"
    /\ \E b \in bookings : b.id = last.id

\* a request of the race whose row was committed
Inserted(w) == work[w].id # 0 /\ \E b \in bookings : b.id = work[w].id

\* C10: concurrent create_booking requests for one bucket are not serialized:
\* a request that passed the capacity test on its own read can always commit
\* its row, whatever the others have committed since (only a table constraint or
\* the database can refuse it), and a request at its capacity query never waits;
\* so two requests that both read before either commits are both accepted.
C10_NoLock ==
    \A w \in Workers :
        /\ work[w].pc = "capacity" => ENABLED capacity_check(w)
        /\ ( /\ work[w].pc = "commit"
             /\ nextId <= MaxBookings
             /\ ~ConstraintViolated(bookings, special_events, NewRow(work[w].req, nextId)) )
               => ENABLED (commit(w) /\ work'[w].pc = "respond")

\* C10 witness: two requests with different emails for the same bucket, each
\* having read an empty bucket, are both accepted and stored, and the bucket
\* holds more than 25 guests.
C10_Witness ==
    \E v, w \in Workers :
        /\ v # w /\ Inserted(v) /\ Inserted(w)
        /\ work[v].status = 200 /\ work[w].status = 200
        /\ work[v].req.email # work[w].req.email
        /\ work[v].req.booking_date = work[w].req.booking_date
        /\ work[v].req.booking_time = work[w].req.booking_time
        /\ work[v].booked = 0 /\ work[w].booked = 0
        /\ SumGuests(BucketOf(bookings, work[w].req)) > 25

\* the day an isoformat string names
DateOf(str) == CHOOSE n \in 0..(NumToday + 60) : date_isoformat(n) = str

\* the minutes after midnight of an entry's effective time: 12:00 for a brunch,
\* 00:00 for a special event without a time
EffectiveMinutes(entry) ==
    IF entry.type = "brunch" THEN 12 * 60
    ELSE IF entry.booking_time = None THEN 0
    ELSE LET t == CHOOSE t \in {time(12, 0), time(13, 30), time(20, 0)} :
                      time_isoformat(t) = entry.booking_time
         IN t[1] * 60 + t[2]

\* C11: get_bookable_events returns exactly 8 brunch entries, one for each of
\* the 8 Sundays from today on (today counted when it is a Sunday), and one
\* entry for each stored special event dated today or later, closed or not, and
\* for no other;
\* the list is ascending by (date, effective time).
C11_EventCatalog ==
    last.op = "get_bookable_events" =>
        LET ev == last.events
            brunch == {i \in 1..Len(ev) : ev[i].type = "brunch"}
            special == {i \in 1..Len(ev) : ev[i].type = "special"}
            due == {e \in special_events : e.booking_date >= last.today}
        IN
        /\ Cardinality(brunch) = 8
        /\ {DateOf(ev[i].booking_date) : i \in brunch}
               = {d \in last.today..(last.today + 55) : d % 7 = 0}
        /\ brunch \cup special = 1..Len(ev)
        /\ Cardinality(special) = Cardinality(due)
        /\ {<<ev[i].id[1], DateOf(ev[i].booking_date), ev[i].booking_time>> : i \in special}
               = {<<e.id, e.booking_date,
                    IF e.booking_time = None THEN None ELSE time_isoformat(e.booking_time)>>
                  : e \in due}
        /\ \A i, j \in 1..Len(ev) :
               i < j => \/ DateOf(ev[i].booking_date) < DateOf(ev[j].booking_date)
                        \/ /\ DateOf(ev[i].booking_date) = DateOf(ev[j].booking_date)
                           /\ EffectiveMinutes(ev[i]) <= EffectiveMinutes(ev[j])

\* C11 witness: a catalog asked on a weekday, with one stored event already past
\* and left out, and a closed one without a time on a Sunday listed just before that
\* Sunday's brunch, the brunches running into the next year.
C11_Witness ==
    /\ last.op = "get_bookable_events"
    /\ last.today % 7 # 0
    /\ \E e \in special_events : e.booking_date < last.today
    /\ \E i \in 1..(Len(last.events) - 1) :
           /\ last.events[i].type = "special" /\ last.events[i].booking_time = None
           /\ \E e \in special_events : <<e.id>> = last.events[i].id /\ e.is_closed
           /\ last.events[i + 1].type = "brunch"
           /\ last.events[i + 1].booking_date = last.events[i].booking_date
    /\ \E i \in 1..Len(last.events) : Ymd(DateOf(last.events[i].booking_date))[1] = 2025

\* the five admin endpoints
AdminOps == {"get_all_bookings", "export_bookings_to_pdf", "create_special_event",
             "read_special_events", "delete_special_event"}

\* the credentials of the admin
IsAdmin(cred) == cred.username = "admin" /\ <<cred.password>> = ADMIN_PASSWORD

\* a step that leaves both tables alone and returns none of their rows
NothingDone ==
    /\ bookings' = bookings /\ special_events' = special_events
    /\ last'.data = {} /\ last'.status # 200

\* C12: with no admin password configured every admin endpoint answers every
\* request with a server error (500) and neither reads nor writes the tables;
\* with a password configured an endpoint goes on only for username admin and
\* the configured password.
C12_FailClosed ==
    [][ (last' # last /\ last'.op \in AdminOps) =>
            IF ADMIN_PASSWORD = None
            THEN last'.status = 500 /\ NothingDone
            ELSE ~IsAdmin(last'.cred) => NothingDone ]_vars

\* C12, the part the code keeps: with ADMIN_PASSWORD unset every admin endpoint
\* refuses (401 or 500) and does nothing, and with it set nothing is done for
\* other credentials than the admin's.
RefusedWhenUnset ==
    [][ (last' # last /\ last'.op \in AdminOps) =>
            IF ADMIN_PASSWORD = None
            THEN last'.status \in {401, 500} /\ NothingDone
            ELSE ~IsAdmin(last'.cred) => NothingDone ]_vars

\* Only the booking list answers 500 without a password.
ServerErrorOnlyFromList ==
    (last.op \in AdminOps /\ last.status = 500) => last.op = "get_all_bookings"

\* An empty ADMIN_PASSWORD, which the two listings of bookings count as not
\* configured, opens nothing.
EmptyPasswordOpensNothing ==
    (last.op \in AdminOps /\ ADMIN_PASSWORD = <<"">>) => last.status # 200

\* the unset password refused by an endpoint other than the booking list, with
\* the admin's name, while bookings are stored
UnsetRefusedWith401 ==
    /\ ADMIN_PASSWORD = None /\ bookings # {}
    /\ last.op = "export_bookings_to_pdf" /\ last.status = 401
    /\ last.cred.username = "admin"

\* the buckets of the stored bookings: every brunch turn and every evening of
\* a date that has a booking
Buckets(bk) ==
    {BrunchTurn(bk, b.booking_date, t) : b \in bk, t \in {<<12, 0>>, <<13, 30>>}}
        \cup {EveningBucket(bk, b.booking_date) : b \in bk}

\* C13: in every state reached by create_booking, cancel_booking and
\* delete_special_event calls served one at a time, with any request the schema
\* accepts, the stored guests of every brunch turn and of every evening sum to at
\* most 25.
C13_StandingCapacity == \A bucket \in Buckets(bookings) : SumGuests(bucket) <= 25

\* C13, in particular: a cancellation or a cascade delete never raises the sum
\* of a bucket.
RemovalNeverRaises ==
    [][ (last' # last /\ last'.op \in {"cancel_booking", "delete_special_event"}) =>
            \A b \in bookings :
                /\ SumGuests(BucketOf(bookings', b)) <= SumGuests(BucketOf(bookings, b)) ]_vars

\* C13, the part the code keeps: while every request has a time and at least
\* one guest, every bucket stays within 25.
StandingCapacityElsewhere ==
    (None \notin scope.times /\ \A g \in scope.guests : g >= 1) => C13_StandingCapacity

\* a full bucket in such a run, after a cancellation made room and a new
\* booking took it
RefilledAfterCancel ==
    /\ None \notin scope.times /\ \A g \in scope.guests : g >= 1
    /\ Accepted /\ last.id >= 3
    /\ Cardinality(bookings) = 2
    /\ SumGuests(BucketOf(bookings, last.req)) = 25

\* a bucket of timed bookings over 25 once a booking with a negative guest
\* count was cancelled
OverfullAfterCancel ==
    /\ None \notin scope.times
    /\ last.op = "cancel_booking" /\ last.status = 200
    /\ \E bucket \in Buckets(bookings) : SumGuests(bucket) > 25

\* C14: in every reachable state, create_booking requests and a
\* delete_special_event of the event they name interleaved in any way, every
\* stored booking with an event_id references a stored special event.
C14_ReferentialIntegrity ==
    \A b \in bookings : b.event_id # None => \E e \in special_events : <<e.id>> = b.event_id

\* C14 witness: a booking for an event was committed after the delete of that
\* event had removed the event's bookings and before it committed; the delete
\* failed on the foreign key, and the booking and its event are stored.
C14_Witness ==
    \E d, w \in Workers :
        /\ work[d].pc = "done" /\ work[d].event # 0
        /\ work[d].status = 500 /\ work[d].detail = "IntegrityError"
        /\ Inserted(w) /\ work[w].req.event_id = <<work[d].event>>
        /\ \E e \in special_events : e.id = work[d].event

\* C15: in every reachable state, concurrent create_booking requests included,
\* no two stored bookings have the same email and the same event, nor, without
\* an event, the same email, date and time.
C15_NoDuplicate ==
    \A b, c \in bookings :
        (b # c /\ b.email = c.email) =>
            /\ ~(b.event_id # None /\ b.event_id = c.event_id)
            /\ ~(b.event_id = None /\ c.event_id = None
                 /\ b.booking_date = c.booking_date /\ b.booking_time = c.booking_time)

\* C15 witness: two requests with the same email for the same stored event were
\* in flight together; one is stored, the other, past the duplicate query,
\* failed at its commit.
C15_Witness ==
    \E v, w \in Workers :
        /\ v # w /\ Inserted(v)
        /\ work[w].pc = "done" /\ work[w].status = 500 /\ work[w].detail = "IntegrityError"
        /\ work[w].req = work[v].req /\ work[w].event = 0
        /\ work[v].req.event_id # None
        /\ \E e \in special_events : <<e.id>> = work[v].req.event_id
        /\ Cardinality({b \in bookings : b.email = work[v].req.email}) = 1

\* the same without an event: same email, date and time
DuplicateRefusedAtCommit ==
    \E v, w \in Workers :
        /\ v # w /\ Inserted(v)
        /\ work[w].pc = "done" /\ work[w].status = 500 /\ work[w].detail = "IntegrityError"
        /\ work[w].req = work[v].req /\ work[w].event = 0
        /\ work[v].req.event_id = None

====
